---- MODULE Spec2Model ----
(***************************************************************************)
(* State-machine model of src/youtube_creator_economy_NOTION.py:           *)
(* class YouTubeCreatorEconomyAutomation (reconcile against the Notion     *)
(* database, retry of failed videos, discovery, transcription with         *)
(* backoff, create/update of Notion pages).                                *)
(*                                                                         *)
(* Texts are sequences of one-character strings, so that substring tests,  *)
(* lower-casing, stripping, slicing and concatenation are computed as the  *)
(* Python code computes them.                                              *)
(***************************************************************************)
EXTENDS Integers, Sequences, FiniteSets, TLC

(***************************************************************************)
(* Text literals of the source                                             *)
(***************************************************************************)
MARK_429 ==
    <<"4", "2", "9">>

MARK_RESOURCE_EXHAUSTED ==
    <<"R", "E", "S", "O", "U", "R", "C", "E", "_", "E", "X", "H", "A", "U", "S", "T",
      "E", "D">>

RATE_LIMIT_EXCEEDED ==
    <<"R", "a", "t", "e", " ", "l", "i", "m", "i", "t", " ", "e", "x", "c", "e", "e",
      "d", "e", "d">>

IND_VIDEO_FAILED ==
    <<"V", "i", "d", "e", "o", " ", "t", "r", "a", "n", "s", "c", "r", "i", "p", "t",
      "i", "o", "n", " ", "f", "a", "i", "l", "e", "d">>

IND_ERROR_429 ==
    <<"E", "r", "r", "o", "r", ":", " ", "4", "2", "9">>

IND_ERROR ==
    <<"E", "r", "r", "o", "r", ":">>

IND_FAILED ==
    <<"t", "r", "a", "n", "s", "c", "r", "i", "p", "t", "i", "o", "n", " ", "f", "a",
      "i", "l", "e", "d">>

RATE_LIMIT_SUMMARY ==
    <<"V", "i", "d", "e", "o", " ", "t", "r", "a", "n", "s", "c", "r", "i", "p", "t",
      "i", "o", "n", " ", "f", "a", "i", "l", "e", "d", " ", "d", "u", "e", " ", "t",
      "o", " ", "r", "a", "t", "e", " ", "l", "i", "m", "i", "t", "s", ".", " ", "W",
      "i", "l", "l", " ", "r", "e", "t", "r", "y", " ", "l", "a", "t", "e", "r", ".">>

RATE_LIMIT_TRANSCRIPT ==
    <<"E", "r", "r", "o", "r", ":", " ", "R", "a", "t", "e", " ", "l", "i", "m", "i",
      "t", " ", "e", "x", "c", "e", "e", "d", "e", "d", ".", " ", "V", "i", "d", "e",
      "o", " ", "I", "D", " ", "p", "r", "e", "s", "e", "r", "v", "e", "d", " ", "f",
      "o", "r", " ", "r", "e", "t", "r", "y", ".">>

GENERIC_SUMMARY ==
    <<"V", "i", "d", "e", "o", " ", "t", "r", "a", "n", "s", "c", "r", "i", "p", "t",
      "i", "o", "n", " ", "f", "a", "i", "l", "e", "d", ".">>

ERROR_PREFIX ==
    <<"E", "r", "r", "o", "r", ":", " ">>

ELLIPSIS ==
    <<".", ".", ".">>

HEADING_TEXT ==
    <<"F", "u", "l", "l", " ", "T", "r", "a", "n", "s", "c", "r", "i", "p", "t">>

MSG_429 ==
    <<"4", "2", "9", " ", "T", "o", "o", " ", "M", "a", "n", "y", " ", "R", "e", "q",
      "u", "e", "s", "t", "s">>

MSG_EXHAUSTED ==
    <<"R", "E", "S", "O", "U", "R", "C", "E", "_", "E", "X", "H", "A", "U", "S", "T",
      "E", "D">>

MSG_TIMEOUT ==
    <<"t", "i", "m", "e", "d", " ", "o", "u", "t">>

TXT_SUMMARY ==
    <<" ", "C", "r", "e", "a", "t", "o", "r", "s", " ", "t", "a", "l", "k", ".", "\n">>

TXT_SUMMARY_ERR ==
    <<"C", "o", "m", "m", "o", "n", " ", "e", "r", "r", "o", "r", ":", " ", "b", "a",
      "d", " ", "a", "u", "d", "i", "o", ".">>

TXT_TRANSCRIPT ==
    <<"H", "e", "l", "l", "o", ".">>

TXT_TRANSCRIPT_RL ==
    <<"[", "A", "D", "]", " ", "R", "a", "t", "e", " ", "l", "i", "m", "i", "t", " ",
      "e", "x", "c", "e", "e", "d", "e", "d">>

(***************************************************************************)
(* Bounds of the model                                                     *)
(***************************************************************************)
\* longest scripted prefix of connector outcomes (later calls succeed)
MaxCalls == 5
\* jitter resolution in bits: the coarse jitters are the multiples of
\* 1 / JitterDen second below one second, JitterDen = 2^JitterBits
JitterBits == 1
\* the jitters next to one second are 1 - d * 2^-53 second, 1 <= d <= MaxBelowOne
MaxBelowOne == 9
\* largest retry_count exponential_backoff_delay is applied to on its own
MaxAttempt == 6

JitterDen == 2 ^ JitterBits

(***************************************************************************)
(* Configuration constants (__init__)                                      *)
(***************************************************************************)
request_delay == 3
max_retries == 3
base_backoff == 5

(***************************************************************************)
(* Python string operations on texts                                       *)
(***************************************************************************)
UPPER ==
    <<"A", "B", "C", "D", "E", "F", "G", "H", "I", "J", "K", "L", "M", "N", "O", "P",
      "Q", "R", "S", "T", "U", "V", "W", "X", "Y", "Z">>

LOWER ==
    <<"a", "b", "c", "d", "e", "f", "g", "h", "i", "j", "k", "l", "m", "n", "o", "p",
      "q", "r", "s", "t", "u", "v", "w", "x", "y", "z">>

LowerMap == [c \in {UPPER[i] : i \in 1..Len(UPPER)} |->
                LOWER[CHOOSE i \in 1..Len(UPPER) : UPPER[i] = c]]

\* str.lower() on one character
LowerChar(c) == IF c \in DOMAIN LowerMap THEN LowerMap[c] ELSE c

\* str.lower()
Lower(s) == [i \in 1..Len(s) |-> LowerChar(s[i])]

\* pat in s
Contains(s, pat) ==
    \E i \in 1..(Len(s) - Len(pat) + 1) : SubSeq(s, i, i + Len(pat) - 1) = pat

IsSpace(c) == c \in {" ", "\n", "\t"}

\* str.strip()
Strip(s) ==
    LET keep == {i \in 1..Len(s) : ~IsSpace(s[i])}
    IN  IF keep = {} THEN <<>>
        ELSE LET lo == CHOOSE i \in keep : \A j \in keep : i <= j
                 hi == CHOOSE i \in keep : \A j \in keep : j <= i
             IN  SubSeq(s, lo, hi)

(***************************************************************************)
(* Transformation connector and transcribe_youtube_url                     *)
(***************************************************************************)
\* generate_content returns a response whose .text is t
OkOut(t) == [ok |-> TRUE, text |-> t]
\* generate_content raises an exception e with str(e) = m
ErrOut(m) == [ok |-> FALSE, text |-> m]

\* The connector is scripted: its k-th call of one transcription has the
\* outcome beh[k]; calls after the script succeed.
OutcomeAt(beh, k) == IF k <= Len(beh) THEN beh[k] ELSE OkOut(TXT_TRANSCRIPT)

\* "429" in str(e) or "RESOURCE_EXHAUSTED" in str(e)
IsRateLimit(msg) == Contains(msg, MARK_429) \/ Contains(msg, MARK_RESOURCE_EXHAUSTED)

\* A duration is ticks / JitterDen - below * 2^-53 seconds: a float that is a
\* multiple of 1 / JitterDen second, or one that lies a few units of 2^-53
\* second under such a multiple.
Time(ticks, below) == [ticks |-> ticks, below |-> below]
Seconds(n) == Time(n * JitterDen, 0)
TimeLess(a, b) == a.ticks < b.ticks \/ (a.ticks = b.ticks /\ a.below > b.below)
TimeLeq(a, b) == a = b \/ TimeLess(a, b)

\* random.uniform(0, 1) returns 0 + (1 - 0) * random(), and random() is a
\* multiple of 2^-53 in [0, 1): the coarse values j / JitterDen and the
\* values 1 - d * 2^-53 next to one
CoarseJitters == {Time(j, 0) : j \in 0..(JitterDen - 1)}
NearOneJitters == {Time(JitterDen, d) : d \in 1..MaxBelowOne}
Jitters == CoarseJitters \cup NearOneJitters

\* the exponent e of a positive integer: 2^e <= n < 2^(e + 1)
FloorLog2(n) == CHOOSE e \in 0..30 : 2 ^ e <= n /\ n < 2 ^ (e + 1)

\* delay + jitter in Python: the int delay becomes a float and the sum is
\* rounded to the nearest float, ties to the even mantissa.  A coarse jitter
\* gives an exact sum.  The sum with 1 - d * 2^-53 lies in the binade of
\* 2^e = 2^FloorLog2(delay), where floats are 2^(e - 52) apart, that is
\* 2^(e + 1) units of 2^-53; delay + 1 has an even mantissa there.
FloatAdd(delay, jitter) ==
    IF jitter.below = 0
    THEN Time(delay * JitterDen + jitter.ticks, 0)
    ELSE LET ulp == 2 ^ (FloorLog2(delay) + 1)
             q == jitter.below \div ulp
             r == jitter.below % ulp
             m == IF 2 * r < ulp THEN q
                  ELSE IF 2 * r > ulp THEN q + 1
                  ELSE IF q % 2 = 0 THEN q ELSE q + 1
         IN  Time((delay + 1) * JitterDen, m * ulp)

exponential_backoff_delay_Linear(retry_count, jitter) ==
    FloatAdd(base_backoff * (2 * retry_count), jitter)

\* total_delay of exponential_backoff_delay; jitter is the value drawn by
\* random.uniform(0, 1)
exponential_backoff_delay(retry_count, jitter) ==
    FloatAdd(base_backoff * (2 ^ retry_count), jitter)

ThrottleBeforeSummary_Always(retry_count) == TRUE

\* "if retry_count == 0" guarding the sleep before the summary request
ThrottleBeforeSummary(retry_count) == retry_count = 0

MayRetry_OffByOne(retry_count) == retry_count <= max_retries

\* "if retry_count < self.max_retries"
MayRetry(retry_count) == retry_count < max_retries

RetryAfter_AnyError(msg, retry_count) == retry_count < max_retries

\* the inner "except Exception as e" of a request: TRUE when it backs off and
\* calls transcribe_youtube_url again, FALSE when it re-raises
RetryAfter(msg, retry_count) == IsRateLimit(msg) /\ MayRetry(retry_count)

\* events of one transcription, in the order they happen
ThrottleEv(n) == [e |-> "throttle", n |-> n, d |-> Seconds(request_delay)]
CallEv(which, n) == [e |-> which, n |-> n, d |-> Seconds(0)]
BackoffEv(n, jitter) == [e |-> "backoff", n |-> n, d |-> exponential_backoff_delay(n, jitter)]

JitterAt(jit, n) == IF n + 1 <= Len(jit) THEN jit[n + 1] ELSE Time(0, 0)

RateLimitArtifact ==
    [summary |-> RATE_LIMIT_SUMMARY, transcript |-> RATE_LIMIT_TRANSCRIPT]

GenericArtifact(msg) ==
    [summary |-> GENERIC_SUMMARY, transcript |-> ERROR_PREFIX \o msg]

\* the outer "except Exception as e" of transcribe_youtube_url
Degrade(msg, ev) ==
    IF IsRateLimit(msg)
    THEN [result |-> RateLimitArtifact, path |-> "rate_limit", events |-> ev]
    ELSE [result |-> GenericArtifact(msg), path |-> "error", events |-> ev]

\* transcribe_youtube_url(video_url, retry_count): k connector calls were
\* made and the events ev happened before this (recursive) call.
\* path is a ghost field naming the return statement taken.
RECURSIVE transcribe_youtube_url(_, _, _, _, _)
transcribe_youtube_url(beh, jit, retry_count, k, ev) ==
    LET ev1 == IF ThrottleBeforeSummary(retry_count)
               THEN Append(ev, ThrottleEv(retry_count)) ELSE ev
        o1  == OutcomeAt(beh, k + 1)
        ev2 == Append(ev1, CallEv("summary", retry_count))
    IN  IF ~o1.ok
        THEN IF RetryAfter(o1.text, retry_count)
             THEN transcribe_youtube_url(beh, jit, retry_count + 1, k + 1,
                      Append(ev2, BackoffEv(retry_count, JitterAt(jit, retry_count))))
             ELSE Degrade(o1.text, ev2)
        ELSE LET summary == Strip(o1.text)
                 ev3 == Append(ev2, ThrottleEv(retry_count))
                 o2  == OutcomeAt(beh, k + 2)
                 ev4 == Append(ev3, CallEv("transcript", retry_count))
             IN  IF ~o2.ok
                 THEN IF RetryAfter(o2.text, retry_count)
                      THEN transcribe_youtube_url(beh, jit, retry_count + 1, k + 2,
                               Append(ev4, BackoffEv(retry_count, JitterAt(jit, retry_count))))
                      ELSE Degrade(o2.text, ev4)
                 ELSE [result |-> [summary |-> summary, transcript |-> o2.text],
                       path |-> "succeeded", events |-> ev4]

\* transcribe_youtube_url(video_url) as process_video calls it
Transcribe(beh, jit) == transcribe_youtube_url(beh, jit, 0, 0, <<>>)

(***************************************************************************)
(* Insertion-ordered dict (self.error_videos, unique_videos): a sequence   *)
(* of [k, v] entries with distinct keys, in insertion order                *)
(***************************************************************************)
DictKeys(d) == {d[i].k : i \in 1..Len(d)}
DictHas(d, k) == k \in DictKeys(d)
DictGet(d, k) == d[CHOOSE i \in 1..Len(d) : d[i].k = k].v
\* d[k] = v: a key already present keeps its position and takes the new value
DictSet(d, k, v) ==
    IF DictHas(d, k)
    THEN [i \in 1..Len(d) |-> IF d[i].k = k THEN [k |-> k, v |-> v] ELSE d[i]]
    ELSE Append(d, [k |-> k, v |-> v])
\* del d[k]
DictDel(d, k) == SelectSeq(d, LAMBDA en : en.k # k)

(***************************************************************************)
(* The Notion database: a sequence of pages in query order.  A page is     *)
(*   [id, video_id, summary, meta, children]                               *)
(* where video_id and summary are rich_text arrays: sequences of elements  *)
(* [has_text, content]; has_text = FALSE is an element without a 'text'    *)
(* key (a mention or an equation).                                         *)
(***************************************************************************)
TextElem(c) == [has_text |-> TRUE, content |-> c]
NoTextId == [has_text |-> FALSE, content |-> ""]
NoTextSummary == [has_text |-> FALSE, content |-> <<>>]

\* the pages of the database cut into query pages after the positions in cuts
PageStarts(n, cuts) == {1} \cup {c + 1 : c \in cuts \cap (1..(n - 1))}
NumPages(n, cuts) == Cardinality(PageStarts(n, cuts))
PageStart(n, cuts, p) ==
    CHOOSE s \in PageStarts(n, cuts) :
        Cardinality({t \in PageStarts(n, cuts) : t <= s}) = p
PageEnd(n, cuts, p) ==
    IF p = NumPages(n, cuts) THEN n ELSE PageStart(n, cuts, p + 1) - 1

\* response.json() of the database query with the given start_cursor
\* (0 stands for None: no cursor, the first page)
QueryResponse(records, cuts, start_cursor) ==
    LET n == Len(records)
        p == IF start_cursor = 0 THEN 1 ELSE start_cursor
        more == p < NumPages(n, cuts)
    IN  [results |-> SubSeq(records, PageStart(n, cuts, p), PageEnd(n, cuts, p)),
         has_more |-> more,
         next_cursor |-> IF more THEN p + 1 ELSE 0]

ERROR_INDICATORS ==
    <<IND_VIDEO_FAILED, RATE_LIMIT_EXCEEDED, IND_ERROR_429, MARK_RESOURCE_EXHAUSTED,
      IND_ERROR, IND_FAILED>>

\* indicator.lower() for indicator in error_indicators
LOWER_INDICATORS == [i \in 1..Len(ERROR_INDICATORS) |-> Lower(ERROR_INDICATORS[i])]

\* any(indicator.lower() in summary.lower() for indicator in error_indicators)
HasErrorIndicator(summary) ==
    LET low == Lower(summary)
    IN  \E i \in 1..Len(LOWER_INDICATORS) : Contains(low, LOWER_INDICATORS[i])

\* the body of "for page in data.get('results', [])", with its try/except: pass
\* acc = [ids |-> all_video_ids, errors |-> error_videos]
ReadPage(acc, page) ==
    IF page.video_id = <<>>
    THEN acc
    ELSE IF ~page.video_id[1].has_text
    THEN acc                                        \* KeyError: pass
    ELSE LET video_id == page.video_id[1].content
             added == [acc EXCEPT !.ids = @ \cup {video_id}]
         IN  IF page.summary = <<>>
             THEN added
             ELSE IF ~page.summary[1].has_text
             THEN added                             \* KeyError: pass
             ELSE IF HasErrorIndicator(page.summary[1].content)
             THEN [added EXCEPT !.errors = DictSet(@, video_id, page.id)]
             ELSE added

RECURSIVE ReadResults(_, _)
ReadResults(acc, results) ==
    IF results = <<>> THEN acc
    ELSE ReadResults(ReadPage(acc, Head(results)), Tail(results))

HasMore_FirstPageOnly(data) == FALSE

\* has_more = data.get('has_more', False)
HasMore(data) == data.has_more

OnQueryError_Partial(acc) == [ids |-> acc.ids, errors |-> acc.errors, raised |-> TRUE]

\* "except Exception as e: ... return set(), {}"
OnQueryError(acc) == [ids |-> {}, errors |-> <<>>, raised |-> TRUE]

\* the "while has_more" loop; the query of page fail_page raises (0: none
\* raises), which the outer "except Exception" turns into (set(), {})
RECURSIVE QueryLoop(_, _, _, _, _)
QueryLoop(records, cuts, fail_page, start_cursor, acc) ==
    LET p == IF start_cursor = 0 THEN 1 ELSE start_cursor
        data == QueryResponse(records, cuts, start_cursor)
        acc1 == ReadResults(acc, data.results)
    IN  IF p = fail_page
        THEN OnQueryError(acc)
        ELSE IF HasMore(data)
        THEN QueryLoop(records, cuts, fail_page, data.next_cursor, acc1)
        ELSE [ids |-> acc1.ids, errors |-> acc1.errors, raised |-> FALSE]

\* load_processed_videos_from_notion(): raised is a ghost field
load_processed_videos_from_notion(records, cuts, fail_page) ==
    QueryLoop(records, cuts, fail_page, 0, [ids |-> {}, errors |-> <<>>])

(***************************************************************************)
(* Writing a page: add_to_notion and update_notion_page                    *)
(***************************************************************************)
\* len(summary) > 2000 and summary[:1997]
SUMMARY_MAX == 2000
SUMMARY_KEEP == 1997
\* range(0, len(transcript), 2000) and transcript[i:i + 2000]
FRAGMENT_MAX == 2000
\* chunks[:98] and chunks[98:]
FIRST_BATCH == 98
\* range(0, len(remaining), 100) and remaining[i:i + 100]
APPEND_BATCH == 100

Min(a, b) == IF a <= b THEN a ELSE b

\* if len(summary) > 2000: summary = summary[:1997] + "..."
Truncate(summary) ==
    IF Len(summary) > SUMMARY_MAX
    THEN SubSeq(summary, 1, SUMMARY_KEEP) \o ELLIPSIS
    ELSE summary

Slices_WholeOnly(s, size) ==
    [j \in 1..(Len(s) \div size) |-> SubSeq(s, (j - 1) * size + 1, j * size)]

\* s[i:i + size] for i in range(0, len(s), size)
Slices(s, size) ==
    [j \in 1..((Len(s) + size - 1) \div size) |->
        SubSeq(s, (j - 1) * size + 1, Min(j * size, Len(s)))]

Paragraph(text) == [type |-> "paragraph", text |-> text]
HeadingBlock == [type |-> "heading_1", text |-> HEADING_TEXT]
DividerBlock == [type |-> "divider", text |-> <<>>]

\* chunks: one paragraph block per slice of the transcript
Chunks(transcript) ==
    LET parts == Slices(transcript, FRAGMENT_MAX)
    IN  [j \in 1..Len(parts) |-> Paragraph(parts[j])]

\* initial_blocks / new_blocks: heading, divider, chunks[:98]
FirstBlocks(chunks) ==
    <<HeadingBlock, DividerBlock>> \o SubSeq(chunks, 1, Min(FIRST_BATCH, Len(chunks)))

RemainingBatches_FromHundred(chunks) ==
    Slices(SubSeq(chunks, APPEND_BATCH + 1, Len(chunks)), APPEND_BATCH)

\* the batches of remaining = chunks[98:]
RemainingBatches(chunks) ==
    Slices(SubSeq(chunks, FIRST_BATCH + 1, Len(chunks)), APPEND_BATCH)

\* number of raising store calls a write of this transcript can make
\* (update: properties, list, first blocks, batches; create: page, batches)
NumStoreCalls(transcript) == 3 + Len(RemainingBatches(Chunks(transcript)))

PageIndex(store, page_id) == CHOOSE i \in 1..Len(store) : store[i].id = page_id

\* the "for i in range(0, len(remaining), 100)" loop of both writers on
\* store[idx]; the fail-th PATCH raises (fail < 1 or > Len(batches): none)
RECURSIVE AppendBatches(_, _, _, _, _)
AppendBatches(store, idx, batches, fail, calls) ==
    IF batches = <<>>
    THEN [store |-> store, raised |-> FALSE, calls |-> calls]
    ELSE IF fail = 1
    THEN [store |-> store, raised |-> TRUE, calls |-> Append(calls, "append")]
    ELSE AppendBatches([store EXCEPT ![idx].children = @ \o Head(batches)],
                       idx, Tail(batches), fail - 1, Append(calls, "append"))

\* add_to_notion: the fail_call-th raising store call raises (0: none)
add_to_notion(store, video_info, summary, transcript, fail_call) ==
    LET chunks == Chunks(transcript)
        page == [id |-> Len(store) + 1,
                 video_id |-> <<TextElem(video_info.video_id)>>,
                 summary |-> <<TextElem(Truncate(summary))>>,
                 meta |-> video_info.meta,
                 children |-> FirstBlocks(chunks)]
    IN  IF fail_call = 1
        THEN [store |-> store, raised |-> TRUE, calls |-> <<"create">>]
        ELSE AppendBatches(Append(store, page), Len(store) + 1,
                           RemainingBatches(chunks), fail_call - 1, <<"create">>)

\* the blocks left after "for block in existing_blocks: ... requests.delete":
\* the deletes of the positions in keep fail and are ignored
AfterDeletes(blocks, keep) ==
    LET left == {i \in 1..Len(blocks) : blocks[i].type = "child_page" \/ i \in keep}
        nth(k) == CHOOSE i \in left : Cardinality({j \in left : j <= i}) = k
    IN  [k \in 1..Cardinality(left) |-> blocks[nth(k)]]

DeleteCalls(blocks) ==
    [k \in 1..Cardinality({i \in 1..Len(blocks) : blocks[i].type # "child_page"}) |-> "delete"]

\* update_notion_page: the fail_call-th raising store call raises (0: none)
update_notion_page(store, page_id, summary, transcript, fail_call, keep) ==
    LET idx == PageIndex(store, page_id)
        chunks == Chunks(transcript)
        patched == [store EXCEPT ![idx].summary = <<TextElem(Truncate(summary))>>]
        existing_blocks == store[idx].children
        deleted == [patched EXCEPT ![idx].children = AfterDeletes(existing_blocks, keep)]
        added == [deleted EXCEPT ![idx].children = @ \o FirstBlocks(chunks)]
        calls2 == <<"update", "list">>
        calls3 == calls2 \o DeleteCalls(existing_blocks) \o <<"append">>
    IN  IF fail_call = 1
        THEN [store |-> store, raised |-> TRUE, calls |-> <<"update">>]
        ELSE IF fail_call = 2
        THEN [store |-> patched, raised |-> TRUE, calls |-> calls2]
        ELSE IF fail_call = 3
        THEN [store |-> deleted, raised |-> TRUE, calls |-> calls3]
        ELSE AppendBatches(added, idx, RemainingBatches(chunks), fail_call - 3, calls3)

(***************************************************************************)
(* process_video                                                           *)
(***************************************************************************)
IsRateLimitSkip_Never(result) == FALSE

\* if "Rate limit exceeded" in result['transcript']
IsRateLimitSkip(result) == Contains(result.transcript, RATE_LIMIT_EXCEEDED)

\* if video_id in self.processed_videos_cache and video_id not in self.error_videos
AlreadyProcessed(cache, errors, video_id) ==
    video_id \in cache /\ ~DictHas(errors, video_id)

ChoosesUpdate_Never(errors, video_id) == FALSE

\* if video_id in self.error_videos (update the existing page) else (create)
ChoosesUpdate(errors, video_id) == DictHas(errors, video_id)

CacheAfter_Always(cache, video_id, written) == cache \cup {video_id}

\* self.processed_videos_cache.add(video_id) comes after the write: it is
\* reached only when transcription was not skipped and the write returned
CacheAfter(cache, video_id, written) ==
    IF written THEN cache \cup {video_id} ELSE cache

CatchesWriteError_Never == FALSE

\* "except Exception as e: ... return False" around the body of process_video
CatchesWriteError == TRUE

\* process_video(video_info): cache and errors are self.processed_videos_cache
\* and self.error_videos, tr is what self.transcribe_youtube_url(video_url)
\* returns when it is called; propagates tells whether an exception leaves
\* process_video; outcome, path and calls are ghost fields (the branch taken,
\* the return statement of the transcription, the store calls issued in order)
process_video(store, cache, errors, video_info, tr, fail_call, keep) ==
    LET video_id == video_info.video_id
        same == [store |-> store, cache |-> cache, errors |-> errors, ret |-> FALSE,
                 propagates |-> FALSE]
    IN  IF AlreadyProcessed(cache, errors, video_id)
        THEN same @@ [outcome |-> "already", path |-> "none", calls |-> <<>>]
        ELSE
        LET result == tr.result
        IN  IF IsRateLimitSkip(result)
            THEN [store |-> store, cache |-> CacheAfter(cache, video_id, FALSE),
                  errors |-> errors, ret |-> FALSE, propagates |-> FALSE,
                  outcome |-> "skipped", path |-> tr.path, calls |-> <<>>]
            ELSE IF ChoosesUpdate(errors, video_id)
            THEN LET up == update_notion_page(store, DictGet(errors, video_id),
                                result.summary, result.transcript, fail_call, keep)
                 IN  IF up.raised
                     THEN [store |-> up.store, cache |-> CacheAfter(cache, video_id, FALSE),
                           errors |-> errors,
                           ret |-> FALSE, propagates |-> ~CatchesWriteError,
                           outcome |-> "failed", path |-> tr.path, calls |-> up.calls]
                     ELSE [store |-> up.store, cache |-> CacheAfter(cache, video_id, TRUE),
                           errors |-> DictDel(errors, video_id),
                           ret |-> TRUE, propagates |-> FALSE,
                           outcome |-> "persisted", path |-> tr.path, calls |-> up.calls]
            ELSE LET ad == add_to_notion(store, video_info, result.summary,
                                result.transcript, fail_call)
                 IN  IF ad.raised
                     THEN [store |-> ad.store, cache |-> CacheAfter(cache, video_id, FALSE),
                           errors |-> errors,
                           ret |-> FALSE, propagates |-> ~CatchesWriteError,
                           outcome |-> "failed", path |-> tr.path, calls |-> ad.calls]
                     ELSE [store |-> ad.store, cache |-> CacheAfter(cache, video_id, TRUE),
                           errors |-> errors,
                           ret |-> TRUE, propagates |-> FALSE,
                           outcome |-> "persisted", path |-> tr.path, calls |-> ad.calls]

(***************************************************************************)
(* run: scheduling                                                         *)
(***************************************************************************)
\* the placeholder video_info of the retry loop
RetryInfo(video_id) == [video_id |-> video_id, meta |-> 0]

\* unique_videos = {v['video_id']: v for v in all_videos}.values()
RECURSIVE UniqueDict(_, _)
UniqueDict(d, videos) ==
    IF videos = <<>> THEN d
    ELSE UniqueDict(DictSet(d, Head(videos).video_id, Head(videos)), Tail(videos))

unique_videos_FirstWins(all) ==
    LET firsts == {i \in 1..Len(all) : \A j \in 1..(i - 1) : all[j].video_id # all[i].video_id}
        nth(k) == CHOOSE i \in firsts : Cardinality({j \in firsts : j <= i}) = k
    IN  [k \in 1..Cardinality(firsts) |-> all[nth(k)]]

unique_videos(all) ==
    LET d == UniqueDict(<<>>, all)
    IN  [i \in 1..Len(d) |-> d[i].v]

\* [v for v in unique_videos if v['video_id'] not in self.processed_videos_cache
\*  or v['video_id'] in self.error_videos]
unprocessed_videos(all, cache, errors) ==
    SelectSeq(unique_videos(all),
              LAMBDA v : v.video_id \notin cache \/ DictHas(errors, v.video_id))

NoOut == [result |-> [summary |-> <<>>, transcript |-> <<>>], path |-> "none", events |-> <<>>]
NoLoad == [ids |-> {}, errors |-> <<>>, raised |-> FALSE]
NoLast == [video_id |-> "", is_retry |-> FALSE, outcome |-> "none", path |-> "none",
           ret |-> FALSE, calls |-> <<>>, result |-> NoOut.result, was_failed |-> FALSE,
           page |-> 0, kept |-> 0]

(***************************************************************************)
(* State                                                                   *)
(***************************************************************************)
VARIABLES
    tr_pc,        \* "ready" before, "done" after one transcription
    tr_beh,       \* the scripted connector of that transcription
    tr_out,       \* what transcribe_youtube_url returned, with its events
    rc_pc,        \* "ready" before, "done" after one load of the database
    rc_records,   \* the pages of the database, in query order
    rc_cuts,      \* where the database cuts them into query pages
    rc_fail,      \* the query page that raised (0: none)
    rc_out,       \* what load_processed_videos_from_notion returned
    sc_pc,        \* "ready" before, "done" after one scheduling
    sc_all,       \* all_videos of that scheduling
    sc_cache,     \* self.processed_videos_cache of that scheduling
    sc_errors,    \* self.error_videos of that scheduling
    sc_out,       \* the unprocessed_videos it computed
    store,        \* the Notion database: its pages in query order
    cache,        \* self.processed_videos_cache
    errors,       \* self.error_videos
    pc,           \* "idle", then per run "retry", "new", "done" ("aborted"
                  \* when an exception leaves run())
    runs,         \* number of runs finished
    retry_items,  \* what is left of list(self.error_videos.items())
    all_videos,   \* all_videos of this run
    unprocessed,  \* unprocessed_videos of this run
    pos,          \* number of unprocessed_videos already handled
    total,        \* total of this run
    log,          \* ghost: the work units of this run that were transcribed
    last,         \* ghost: the last process_video call of this run
    cache0,       \* ghost: the processed ids the load of this run returned
    failed0,      \* ghost: the error videos the load of this run returned
    fail_page0,   \* ghost: the query page that raised in that load (0: none)
    interrupted,  \* ghost: ids whose latest write in this run raised
    fr_pc,        \* "ready" before, "done" after one fragmenting
    fr_text,      \* the transcript that is fragmented
    fr_chunks,    \* its chunks
    bt_pc,        \* "ready" before, "done" after one batching
    bt_chunks,    \* the chunks that are batched
    bt_first,     \* the blocks of the first write request
    bt_batches,   \* the batches of the later write requests
    bk_pc,        \* "ready" before, "done" after one backoff computation
    bk_n,         \* its retry_count
    bk_jitter,    \* the jitter random.uniform(0, 1) returns in it
    bk_out        \* its total_delay

tr_vars == <<tr_pc, tr_beh, tr_out>>
rc_vars == <<rc_pc, rc_records, rc_cuts, rc_fail, rc_out>>
mem_vars == <<cache, errors>>
run_vars == <<pc, runs, retry_items, all_videos, unprocessed, pos, total>>
ghost_vars == <<log, last, cache0, failed0, fail_page0, interrupted>>
main_vars == <<store, mem_vars, run_vars, ghost_vars>>
sc_vars == <<sc_pc, sc_all, sc_cache, sc_errors, sc_out>>
fr_vars == <<fr_pc, fr_text, fr_chunks>>
bt_vars == <<bt_pc, bt_chunks, bt_first, bt_batches>>
bk_vars == <<bk_pc, bk_n, bk_jitter, bk_out>>
fn_vars == <<fr_vars, bt_vars, bk_vars>>
vars == <<tr_vars, rc_vars, sc_vars, main_vars, fn_vars>>

SeqsUpTo(S, n) == UNION {[1..m -> S] : m \in 0..n}

TrIdle ==
    /\ tr_pc = "idle"
    /\ tr_beh = <<>>
    /\ tr_out = NoOut

RcIdle ==
    /\ rc_pc = "idle"
    /\ rc_records = <<>>
    /\ rc_cuts = {}
    /\ rc_fail = 0
    /\ rc_out = NoLoad

ScIdle ==
    /\ sc_pc = "idle"
    /\ sc_all = <<>>
    /\ sc_cache = {}
    /\ sc_errors = <<>>
    /\ sc_out = <<>>

FrIdle ==
    /\ fr_pc = "idle"
    /\ fr_text = <<>>
    /\ fr_chunks = <<>>

BtIdle ==
    /\ bt_pc = "idle"
    /\ bt_chunks = <<>>
    /\ bt_first = <<>>
    /\ bt_batches = <<>>

BkIdle ==
    /\ bk_pc = "idle"
    /\ bk_n = 0
    /\ bk_jitter = Time(0, 0)
    /\ bk_out = Time(0, 0)

MainIdle ==
    /\ store = <<>>
    /\ cache = {}
    /\ errors = <<>>
    /\ pc = "idle"
    /\ runs = 0
    /\ retry_items = <<>>
    /\ all_videos = <<>>
    /\ unprocessed = <<>>
    /\ pos = 0
    /\ total = 0
    /\ log = <<>>
    /\ last = NoLast
    /\ cache0 = {}
    /\ failed0 = <<>>
    /\ fail_page0 = 0
    /\ interrupted = {}

(***************************************************************************)
(* Specification of one transcription (transcribe_youtube_url alone)       *)
(***************************************************************************)
\* messages of the exceptions the connector raises
RateLimitMessages == {MSG_429, MSG_EXHAUSTED}
OtherMessages == {MSG_TIMEOUT}
TrMessages == RateLimitMessages \cup OtherMessages
TrOutcomes == {OkOut(TXT_SUMMARY)} \cup {ErrOut(m) : m \in TrMessages}
\* jitters of the backoff sleeps: the coarse ones and the largest value of
\* random.uniform(0, 1)
TrJitters == CoarseJitters \cup {Time(JitterDen, 1)}


TrInit ==
    /\ tr_pc = "ready"
    /\ tr_beh \in SeqsUpTo(TrOutcomes, MaxCalls)
    /\ tr_out = NoOut
    /\ RcIdle
    /\ ScIdle
    /\ MainIdle
    /\ FrIdle /\ BtIdle /\ BkIdle

TrTranscribe ==
    /\ tr_pc = "ready"
    /\ \E jit \in [1..max_retries -> TrJitters] :
           tr_out' = Transcribe(tr_beh, jit)
    /\ tr_pc' = "done"
    /\ UNCHANGED <<tr_beh, rc_vars, sc_vars, main_vars, fn_vars>>

TrNext == TrTranscribe

SpecTransform == TrInit /\ [][TrNext]_vars

(***************************************************************************)
(* Specification of one load of the database                               *)
(* (load_processed_videos_from_notion alone)                               *)
(***************************************************************************)
\* longest database of the load specification
MaxRecords == 3

\* [v, s]: the 'Video ID' and 'Summary' rich_text arrays of a page
RcShapes ==
    { [v |-> <<TextElem("X")>>, s |-> <<TextElem(GENERIC_SUMMARY)>>],
      [v |-> <<TextElem("X")>>, s |-> <<TextElem(Strip(TXT_SUMMARY))>>],
      [v |-> <<TextElem("Y")>>, s |-> <<TextElem(TXT_SUMMARY_ERR)>>],
      [v |-> <<TextElem("Y")>>, s |-> <<NoTextSummary>>],
      [v |-> <<TextElem("Y")>>, s |-> <<>>],
      [v |-> <<>>, s |-> <<TextElem(GENERIC_SUMMARY)>>],
      [v |-> <<NoTextId>>, s |-> <<TextElem(GENERIC_SUMMARY)>>] }

RcPage(i, shape) ==
    [id |-> i, video_id |-> shape.v, summary |-> shape.s, meta |-> 0, children |-> <<>>]

RcInit ==
    /\ rc_pc = "ready"
    /\ \E shapes \in SeqsUpTo(RcShapes, MaxRecords) :
          rc_records = [i \in 1..Len(shapes) |-> RcPage(i, shapes[i])]
    /\ rc_cuts \in SUBSET (1..(Len(rc_records) - 1))
    /\ rc_fail = 0
    /\ rc_out = NoLoad
    /\ TrIdle
    /\ ScIdle
    /\ MainIdle
    /\ FrIdle /\ BtIdle /\ BkIdle

RcLoad ==
    /\ rc_pc = "ready"
    /\ \E fail_page \in 0..NumPages(Len(rc_records), rc_cuts) :
          /\ rc_fail' = fail_page
          /\ rc_out' = load_processed_videos_from_notion(rc_records, rc_cuts, fail_page)
    /\ rc_pc' = "done"
    /\ UNCHANGED <<rc_records, rc_cuts, tr_vars, sc_vars, main_vars, fn_vars>>

RcNext == RcLoad

SpecReconcile == RcInit /\ [][RcNext]_vars

(***************************************************************************)
(* Specification of one scheduling: the computation of unique_videos and   *)
(* unprocessed_videos in run()                                             *)
(***************************************************************************)
\* longest all_videos of the scheduling specification
MaxDiscovered == 3
\* number of distinct title/channel/published values of a discovered video
NumMetas == 2

VideoIds == {"X", "Y"}

\* the video_info of a discovered video; meta stands for its title, channel
\* and published fields
Item(video_id, meta) == [video_id |-> video_id, meta |-> meta]

\* the values self.error_videos can have over VideoIds (page ids 1 and 2)
ScErrorDicts ==
    { <<>>,
      <<[k |-> "X", v |-> 1]>>,
      <<[k |-> "Y", v |-> 2]>>,
      <<[k |-> "X", v |-> 1], [k |-> "Y", v |-> 2]>>,
      <<[k |-> "Y", v |-> 2], [k |-> "X", v |-> 1]>> }

ScInit ==
    /\ sc_pc = "ready"
    /\ sc_all \in SeqsUpTo({Item(v, m) : v \in VideoIds, m \in 1..NumMetas}, MaxDiscovered)
    /\ sc_cache \in SUBSET VideoIds
    /\ sc_errors \in {d \in ScErrorDicts : DictKeys(d) \subseteq sc_cache}
    /\ sc_out = <<>>
    /\ TrIdle
    /\ RcIdle
    /\ MainIdle
    /\ FrIdle /\ BtIdle /\ BkIdle

ScSchedule ==
    /\ sc_pc = "ready"
    /\ sc_out' = unprocessed_videos(sc_all, sc_cache, sc_errors)
    /\ sc_pc' = "done"
    /\ UNCHANGED <<sc_all, sc_cache, sc_errors, tr_vars, rc_vars, main_vars, fn_vars>>

ScNext == ScSchedule

SpecSchedule == ScInit /\ [][ScNext]_vars

(***************************************************************************)
(* Specification of the pipeline: each run is __init__ (the load) followed *)
(* by run() (retry loop, discovery, loop over the unprocessed videos)      *)
(***************************************************************************)
\* number of complete runs (the load of the run after them is modelled too)
MaxRuns == 1
\* longest all_videos of a run
MaxFetched == 2
\* most block deletes that fail in one update_notion_page
MaxDeleteFailures == 1

\* the page an earlier run that got a generic error for X left behind
FailedPageX ==
    [id |-> 1,
     video_id |-> <<TextElem("X")>>,
     summary |-> <<TextElem(GENERIC_SUMMARY)>>,
     meta |-> 1,
     children |-> FirstBlocks(Chunks(ERROR_PREFIX \o MSG_TIMEOUT))]

\* the page an earlier run that transcribed X left behind
DonePageX ==
    [id |-> 1,
     video_id |-> <<TextElem("X")>>,
     summary |-> <<TextElem(Strip(TXT_SUMMARY))>>,
     meta |-> 1,
     children |-> FirstBlocks(Chunks(TXT_TRANSCRIPT))]

\* the page an earlier run that got a generic error for Y left behind, after X
FailedPageY ==
    [id |-> 2,
     video_id |-> <<TextElem("Y")>>,
     summary |-> <<TextElem(GENERIC_SUMMARY)>>,
     meta |-> 1,
     children |-> FirstBlocks(Chunks(ERROR_PREFIX \o MSG_TIMEOUT))]

\* the database as earlier runs left it
InitialStores == {<<>>, <<FailedPageX>>, <<DonePageX>>, <<DonePageX, FailedPageY>>}

\* connector scripts of the pipeline
MainBehaviours ==
    { <<OkOut(TXT_SUMMARY), OkOut(TXT_TRANSCRIPT)>>,
      <<OkOut(TXT_SUMMARY_ERR), OkOut(TXT_TRANSCRIPT)>>,
      <<OkOut(TXT_SUMMARY), OkOut(TXT_TRANSCRIPT_RL)>>,
      <<ErrOut(MSG_429), OkOut(TXT_SUMMARY), ErrOut(MSG_EXHAUSTED),
        OkOut(TXT_SUMMARY), OkOut(TXT_TRANSCRIPT)>>,
      <<ErrOut(MSG_EXHAUSTED), ErrOut(MSG_429), ErrOut(MSG_429), ErrOut(MSG_EXHAUSTED)>>,
      <<ErrOut(MSG_TIMEOUT)>> }

Init ==
    /\ store \in InitialStores
    /\ cache = {}
    /\ errors = <<>>
    /\ pc = "idle"
    /\ runs = 0
    /\ retry_items = <<>>
    /\ all_videos = <<>>
    /\ unprocessed = <<>>
    /\ pos = 0
    /\ total = 0
    /\ log = <<>>
    /\ last = NoLast
    /\ cache0 = {}
    /\ failed0 = <<>>
    /\ fail_page0 = 0
    /\ interrupted = {}
    /\ TrIdle
    /\ RcIdle
    /\ ScIdle
    /\ FrIdle /\ BtIdle /\ BkIdle

\* __init__: self.processed_videos_cache, self.error_videos =
\* self.load_processed_videos_from_notion(); then run() starts its retry loop
Construct ==
    /\ pc \in {"idle", "done"}
    /\ runs <= MaxRuns
    /\ \E cuts \in SUBSET (1..(Len(store) - 1)) :
       \E fail_page \in 0..NumPages(Len(store), cuts) :
       \E ld \in {load_processed_videos_from_notion(store, cuts, fail_page)} :
              /\ cache' = ld.ids
              /\ errors' = ld.errors
              /\ retry_items' = ld.errors
              /\ cache0' = ld.ids
              /\ failed0' = ld.errors
              /\ fail_page0' = fail_page
    /\ pc' = "retry"
    /\ all_videos' = <<>>
    /\ unprocessed' = <<>>
    /\ pos' = 0
    /\ total' = 0
    /\ log' = <<>>
    /\ last' = NoLast
    /\ interrupted' = {}
    /\ UNCHANGED <<store, runs, tr_vars, rc_vars, sc_vars, fn_vars>>

\* the sets of block positions whose delete may fail when the page of
\* video_id is updated: the deletes of its first blocks fail
KeepSets(video_id) ==
    IF DictHas(errors, video_id)
    THEN LET n == Len(store[PageIndex(store, DictGet(errors, video_id))].children)
         IN  {1..k : k \in 0..Min(MaxDeleteFailures, n)}
    ELSE {{}}

\* what transcribe_youtube_url returns under each connector script
MainTranscribed == [beh \in MainBehaviours |-> Transcribe(beh, <<>>)]

\* one call self.process_video(video_info, is_retry) of run()
CallProcessVideo(video_info, is_retry) ==
    \E beh \in MainBehaviours :
    \E fail_call \in 0..NumStoreCalls(MainTranscribed[beh].result.transcript) :
    \E keep \in KeepSets(video_info.video_id) :
    \E r \in {process_video(store, cache, errors, video_info, MainTranscribed[beh],
                              fail_call, keep)} :
        LET v == video_info.video_id
            was_failed == DictHas(errors, v)
            page == IF r.calls = <<>> THEN 0
                    ELSE IF was_failed THEN PageIndex(store, DictGet(errors, v))
                    ELSE Len(store) + 1
            kept == IF \E i \in 1..Len(r.calls) : r.calls[i] = "delete"
                    THEN Cardinality(keep) ELSE 0
        IN  /\ store' = r.store
            /\ cache' = r.cache
            /\ errors' = r.errors
            /\ total' = IF r.ret THEN total + 1 ELSE total
            /\ pc' = IF r.propagates THEN "aborted" ELSE pc
            /\ log' = IF r.outcome = "already" THEN log
                      ELSE Append(log, [video_id |-> v, is_retry |-> is_retry])
            /\ last' = [video_id |-> v, is_retry |-> is_retry, outcome |-> r.outcome,
                        path |-> r.path, ret |-> r.ret, calls |-> r.calls,
                        result |-> IF r.outcome = "already" THEN NoOut.result
                                   ELSE MainTranscribed[beh].result,
                        was_failed |-> was_failed, page |-> page, kept |-> kept]
            /\ interrupted' = IF r.outcome = "failed" THEN interrupted \cup {v}
                              ELSE IF r.outcome = "persisted" THEN interrupted \ {v}
                              ELSE interrupted

\* one iteration of "for video_id, page_id in list(self.error_videos.items())"
RetryStep ==
    /\ pc = "retry"
    /\ runs < MaxRuns
    /\ retry_items # <<>>
    /\ CallProcessVideo(RetryInfo(Head(retry_items).k), TRUE)
    /\ retry_items' = Tail(retry_items)
    /\ UNCHANGED <<runs, all_videos, unprocessed, pos, cache0, failed0, fail_page0,
                   tr_vars, rc_vars, sc_vars, fn_vars>>

\* the discovery loop over the channel handles and the computation of
\* unique_videos and unprocessed_videos
Fetch ==
    /\ pc = "retry"
    /\ runs < MaxRuns
    /\ retry_items = <<>>
    /\ \E all \in SeqsUpTo({Item(v, 1) : v \in VideoIds}, MaxFetched) :
          /\ all_videos' = all
          /\ unprocessed' = unprocessed_videos(all, cache, errors)
    /\ pos' = 0
    /\ pc' = "new"
    /\ UNCHANGED <<store, mem_vars, runs, retry_items, total, ghost_vars,
                   tr_vars, rc_vars, sc_vars, fn_vars>>

\* one iteration of "for video in unprocessed_videos"
NewStep ==
    /\ pc = "new"
    /\ pos < Len(unprocessed)
    /\ CallProcessVideo(unprocessed[pos + 1], FALSE)
    /\ pos' = pos + 1
    /\ UNCHANGED <<runs, retry_items, all_videos, unprocessed, cache0, failed0,
                   fail_page0, tr_vars, rc_vars, sc_vars, fn_vars>>

\* the end of run(): the summary lines
Finish ==
    /\ pc = "new"
    /\ pos = Len(unprocessed)
    /\ pc' = "done"
    /\ runs' = runs + 1
    /\ UNCHANGED <<store, mem_vars, retry_items, all_videos, unprocessed, pos, total,
                   ghost_vars, tr_vars, rc_vars, sc_vars, fn_vars>>

Next == Construct \/ RetryStep \/ Fetch \/ NewStep \/ Finish

Spec == Init /\ [][Next]_vars

\* run() is one thread that goes from one statement to the next: a step that
\* can be taken is taken
FairSpec == Spec /\ WF_vars(Next)

(***************************************************************************)
(* Specification of one fragmenting: the chunks both writers build from    *)
(* the transcript                                                          *)
(***************************************************************************)
\* the transcripts are up to FrMargin characters away from a multiple
\* k * FRAGMENT_MAX of the fragment size, k <= MaxFragments
MaxFragments == 2
FrMargin == 3
\* number of different transcripts of each length
NumPatterns == 4

FrLengths ==
    {n \in 0..(MaxFragments * FRAGMENT_MAX + FrMargin) :
        \E k \in 0..MaxFragments :
            /\ k * FRAGMENT_MAX - FrMargin <= n
            /\ n <= k * FRAGMENT_MAX + FrMargin}

\* a transcript of n characters
FrText(n, p) == [i \in 1..n |-> LOWER[((i * p) % Len(LOWER)) + 1]]

FrInit ==
    /\ fr_pc = "ready"
    /\ \E n \in FrLengths : \E p \in 1..NumPatterns : fr_text = FrText(n, p)
    /\ fr_chunks = <<>>
    /\ BtIdle /\ BkIdle
    /\ TrIdle
    /\ RcIdle
    /\ ScIdle
    /\ MainIdle

FrSplit ==
    /\ fr_pc = "ready"
    /\ fr_chunks' = Chunks(fr_text)
    /\ fr_pc' = "done"
    /\ UNCHANGED <<fr_text, bt_vars, bk_vars, tr_vars, rc_vars, sc_vars, main_vars>>

FrNext == FrSplit

SpecFragment == FrInit /\ [][FrNext]_vars

(***************************************************************************)
(* Specification of one batching: the write requests both writers build    *)
(* from the chunks                                                         *)
(***************************************************************************)
\* most chunks of a transcript
MaxChunks == 299

\* the i-th chunk of a transcript: a paragraph block
BtChunk(i) ==
    Paragraph(<<LOWER[(i \div Len(LOWER)) + 1], LOWER[(i % Len(LOWER)) + 1]>>)

BtInit ==
    /\ bt_pc = "ready"
    /\ \E n \in 0..MaxChunks : bt_chunks = [i \in 1..n |-> BtChunk(i)]
    /\ bt_first = <<>>
    /\ bt_batches = <<>>
    /\ FrIdle /\ BkIdle
    /\ TrIdle
    /\ RcIdle
    /\ ScIdle
    /\ MainIdle

BtBatch ==
    /\ bt_pc = "ready"
    /\ bt_first' = FirstBlocks(bt_chunks)
    /\ bt_batches' = RemainingBatches(bt_chunks)
    /\ bt_pc' = "done"
    /\ UNCHANGED <<bt_chunks, fr_vars, bk_vars, tr_vars, rc_vars, sc_vars, main_vars>>

BtNext == BtBatch

SpecBatch == BtInit /\ [][BtNext]_vars

(***************************************************************************)
(* Specification of one backoff computation (exponential_backoff_delay     *)
(* alone)                                                                  *)
(***************************************************************************)
BkInit ==
    /\ bk_pc = "ready"
    /\ bk_n \in 0..MaxAttempt
    /\ bk_jitter \in Jitters
    /\ bk_out = Time(0, 0)
    /\ FrIdle /\ BtIdle
    /\ TrIdle
    /\ RcIdle
    /\ ScIdle
    /\ MainIdle

BkDelay ==
    /\ bk_pc = "ready"
    /\ bk_out' = exponential_backoff_delay(bk_n, bk_jitter)
    /\ bk_pc' = "done"
    /\ UNCHANGED <<bk_n, bk_jitter, fr_vars, bt_vars, tr_vars, rc_vars, sc_vars, main_vars>>

BkNext == BkDelay

SpecBackoff == BkInit /\ [][BkNext]_vars
(***************************************************************************)
(* Claims about one transcription (SpecTransform)                          *)
(***************************************************************************)
TrEvents == tr_out.events
IsCallEv(ev) == ev.e \in {"summary", "transcript"}
\* positions of the connector calls in the event log
CallPositions == {i \in 1..Len(TrEvents) : IsCallEv(TrEvents[i])}
\* the connector outcome of the call logged at position i
OutcomeOfCall(i) ==
    OutcomeAt(tr_beh, Cardinality({j \in CallPositions : j <= i}))
\* ev is a backoff sleep of exponential_backoff_delay(n)
IsBackoffOf(ev, n) ==
    /\ ev.e = "backoff"
    /\ ev.n = n
    /\ \E jitter \in Jitters : ev.d = exponential_backoff_delay(n, jitter)
BackoffAttempts ==
    LET bpos == {i \in 1..Len(TrEvents) : TrEvents[i].e = "backoff"}
        nth(k) == CHOOSE i \in bpos : Cardinality({j \in bpos : j <= i}) = k
    IN  [k \in 1..Cardinality(bpos) |-> TrEvents[nth(k)].n]
RateLimitRaises(beh) == {k \in 1..Len(beh) : ~beh[k].ok /\ beh[k].text \in RateLimitMessages}
OtherRaises(beh) == {k \in 1..Len(beh) : ~beh[k].ok /\ beh[k].text \in OtherMessages}

\* C4: a rate-limit failure at attempt n < max_retries is followed by one
\* backoff sleep of delay(n) and then the first call of attempt n + 1; a
\* rate-limit failure at attempt n = max_retries ends the transcription with
\* the rate-limit artifact; a connector that raises rate-limit exactly
\* max_retries times and then succeeds yields a succeeded artifact after
\* exactly max_retries backoff sleeps, of attempts 0, 1, ..., max_retries - 1
\* (the scripted raises are all made: every scripted outcome is consumed).
C4_RetrySchedule ==
    tr_pc = "done" =>
        /\ \A i \in CallPositions :
              LET o == OutcomeOfCall(i)
                  n == TrEvents[i].n
              IN  (~o.ok /\ o.text \in RateLimitMessages) =>
                      IF n < max_retries
                      THEN /\ i + 2 <= Len(TrEvents)
                           /\ IsBackoffOf(TrEvents[i + 1], n)
                           /\ TrEvents[i + 2] = CallEv("summary", n + 1)
                      ELSE /\ n = max_retries
                           /\ i = Len(TrEvents)
                           /\ tr_out.path = "rate_limit"
                           /\ tr_out.result = RateLimitArtifact
        /\ (/\ Cardinality(RateLimitRaises(tr_beh)) = max_retries
            /\ OtherRaises(tr_beh) = {}
            /\ Len(tr_beh) <= Cardinality(CallPositions)) =>
              /\ tr_out.path = "succeeded"
              /\ BackoffAttempts = [k \in 1..max_retries |-> k - 1]

C4_Witness ==
    /\ tr_pc = "done"
    /\ Cardinality(RateLimitRaises(tr_beh)) = max_retries
    /\ OtherRaises(tr_beh) = {}
    /\ Len(tr_beh) <= Cardinality(CallPositions)
    /\ tr_out.path = "succeeded"
    /\ Len(BackoffAttempts) = max_retries

\* C5: a connector error that is not a rate-limit error, at any attempt,
\* ends the transcription at once with the generic-error artifact: the failed
\* call is the last event (no backoff sleep, no further connector call).
C5_OtherErrorImmediate ==
    tr_pc = "done" =>
        \A i \in CallPositions :
            LET o == OutcomeOfCall(i)
            IN  (~o.ok /\ o.text \in OtherMessages) =>
                    /\ i = Len(TrEvents)
                    /\ tr_out.path = "error"
                    /\ tr_out.result = GenericArtifact(o.text)

C5_Witness ==
    /\ tr_pc = "done"
    /\ \E i \in CallPositions :
          /\ TrEvents[i].n > 0
          /\ ~OutcomeOfCall(i).ok
          /\ OutcomeOfCall(i).text \in OtherMessages
    /\ tr_out.path = "error"

\* C6 as claimed: request_delay is slept right before every connector call,
\* on the first attempt and on every retry attempt alike.
C6_ThrottleBeforeEveryCall ==
    tr_pc = "done" =>
        \A i \in CallPositions :
            /\ i > 1
            /\ TrEvents[i - 1].e = "throttle"
            /\ TrEvents[i - 1].d = Seconds(request_delay)

\* C6 amended: request_delay is slept right before the summary call of the
\* first attempt and right before every transcript call; the summary call of
\* a retry attempt n >= 1 comes right after the backoff sleep of attempt
\* n - 1, with no throttle sleep in between.
C6_ThrottleExceptRetrySummary ==
    tr_pc = "done" =>
        \A i \in CallPositions :
            /\ i > 1
            /\ IF TrEvents[i].e = "summary" /\ TrEvents[i].n >= 1
               THEN IsBackoffOf(TrEvents[i - 1], TrEvents[i].n - 1)
               ELSE /\ TrEvents[i - 1].e = "throttle"
                    /\ TrEvents[i - 1].d = Seconds(request_delay)

C6_Witness ==
    /\ tr_pc = "done"
    /\ \E i \in CallPositions : TrEvents[i].e = "summary" /\ TrEvents[i].n >= 1
    /\ \E i \in CallPositions : TrEvents[i].e = "transcript" /\ TrEvents[i].n >= 1

(***************************************************************************)
(* Claims about one load of the database (SpecReconcile)                   *)
(***************************************************************************)
IdExtractable(page) == page.video_id # <<>> /\ page.video_id[1].has_text
StatusMarked(page) ==
    /\ page.summary # <<>>
    /\ page.summary[1].has_text
    /\ \E i \in 1..Len(ERROR_INDICATORS) :
          Contains(Lower(page.summary[1].content), Lower(ERROR_INDICATORS[i]))
RcIdOf(i) == rc_records[i].video_id[1].content
RcExtractable == {i \in 1..Len(rc_records) : IdExtractable(rc_records[i])}
RcMarked == {i \in RcExtractable : StatusMarked(rc_records[i])}

\* C9: whatever the split into query pages, a load without a query error
\* returns as processed ids exactly the identifiers of the pages whose
\* identifier can be extracted, and as failed exactly the identifiers whose
\* status text holds a failure marker (case-insensitively), each mapped to
\* the store reference of its (last) marked page; pages without an
\* extractable identifier change nothing; the result is that of the
\* unsplit database.
C9_ReconcileAnySplit ==
    (rc_pc = "done" /\ rc_fail = 0) =>
        /\ ~rc_out.raised
        /\ rc_out.ids = {RcIdOf(i) : i \in RcExtractable}
        /\ DictKeys(rc_out.errors) = {RcIdOf(i) : i \in RcMarked}
        /\ \A k \in DictKeys(rc_out.errors) :
              LET marked == {i \in RcMarked : RcIdOf(i) = k}
              IN  DictGet(rc_out.errors, k) =
                      rc_records[CHOOSE i \in marked : \A j \in marked : j <= i].id
        /\ rc_out = load_processed_videos_from_notion(rc_records, {}, 0)

C9_Witness ==
    /\ rc_pc = "done"
    /\ rc_fail = 0
    /\ NumPages(Len(rc_records), rc_cuts) >= 2
    /\ \E i \in 1..Len(rc_records) : ~IdExtractable(rc_records[i])
    /\ \E i \in RcMarked :
          /\ i >= PageStart(Len(rc_records), rc_cuts, 2)
          /\ rc_records[i].summary[1].content = TXT_SUMMARY_ERR
          /\ DictGet(rc_out.errors, RcIdOf(i)) = rc_records[i].id

(***************************************************************************)
(* Claims about one scheduling (SpecSchedule)                              *)
(***************************************************************************)
ScIds(seq) == {seq[i].video_id : i \in 1..Len(seq)}
ScFirstPos(id) ==
    CHOOSE i \in 1..Len(sc_all) :
        sc_all[i].video_id = id /\ \A j \in 1..(i - 1) : sc_all[j].video_id # id
ScLastPos(id) ==
    CHOOSE i \in 1..Len(sc_all) :
        sc_all[i].video_id = id /\ \A j \in (i + 1)..Len(sc_all) : sc_all[j].video_id # id
\* what both statements of C8 share: every identifier at most once, in the
\* order of the first occurrences, without the identifiers that are
\* processed and not failed; [X, Y, X] with processed {Y} and no failed
\* identifier gives [X]
ScShape ==
    /\ \A k, l \in 1..Len(sc_out) :
          k < l => ScFirstPos(sc_out[k].video_id) < ScFirstPos(sc_out[l].video_id)
    /\ ScIds(sc_out) = ScIds(sc_all) \ (sc_cache \ DictKeys(sc_errors))
    /\ ([i \in 1..Len(sc_all) |-> sc_all[i].video_id] = <<"X", "Y", "X">>
            /\ sc_cache = {"Y"} /\ sc_errors = <<>>)
          => [i \in 1..Len(sc_out) |-> sc_out[i].video_id] = <<"X">>

\* C8 as claimed: the discovered work units hold every identifier at most
\* once, keep for a duplicated identifier the first occurrence (its position
\* and its title/origin/published_at) and leave out the identifiers that are
\* processed and not failed.
C8_FirstOccurrenceWins ==
    sc_pc = "done" =>
        /\ ScShape
        /\ \A k \in 1..Len(sc_out) : sc_out[k] = sc_all[ScFirstPos(sc_out[k].video_id)]

\* C8 amended: as claimed, but a duplicated identifier keeps the position of
\* its first occurrence and the title/origin/published_at of its last one.
C8_FirstPositionLastValue ==
    sc_pc = "done" =>
        /\ ScShape
        /\ \A k \in 1..Len(sc_out) : sc_out[k] = sc_all[ScLastPos(sc_out[k].video_id)]

C8_Witness ==
    /\ sc_pc = "done"
    /\ Len(sc_all) = 3
    /\ sc_all[1].video_id = "X" /\ sc_all[2].video_id = "Y" /\ sc_all[3].video_id = "X"
    /\ sc_all[1].meta # sc_all[3].meta
    /\ sc_cache = {"Y"}
    /\ sc_out = <<sc_all[3]>>

(***************************************************************************)
(* Claims about the pipeline (Spec)                                        *)
(***************************************************************************)
IdOfPage(page) == page.video_id[1].content
LogIds == [i \in 1..Len(log) |-> log[i].video_id]
AllIds == [i \in 1..Len(all_videos) |-> all_videos[i].video_id]

\* C1: the database never holds two pages with the same identifier,
\* whatever the connector calls do (query errors of the load included).
C1_OneRecordPerIdentifier ==
    \A i, j \in 1..Len(store) :
        (i # j /\ IdExtractable(store[i]) /\ IdExtractable(store[j]))
            => IdOfPage(store[i]) # IdOfPage(store[j])

\* C2: a work unit whose transcription ends in the rate-limit artifact is not
\* committed: process_video returns False, issues no store call and leaves
\* the database, processed_videos_cache and error_videos unchanged.
C2_RateLimitNotCommitted ==
    [][(log' # log /\ last'.path = "rate_limit") =>
          /\ last'.ret = FALSE
          /\ last'.calls = <<>>
          /\ store' = store
          /\ cache' = cache
          /\ errors' = errors]_vars

C2_Witness ==
    /\ log # <<>>
    /\ last.path = "rate_limit"
    /\ last.outcome = "skipped"
    /\ DictHas(errors, last.video_id)

\* C3: when a store write of a work unit raised in a run (whose own load
\* did not raise) and the identifier was not written again in that run, the
\* run goes on to its end and the load of the next run, if its query does not
\* raise, does not report the identifier as completely processed.
C3_InterruptedWriteDetected ==
    (pc = "done" /\ fail_page0 = 0) =>
        LET next_load == load_processed_videos_from_notion(store, {}, 0)
        IN  \A v \in interrupted :
                ~(v \in next_load.ids /\ ~DictHas(next_load.errors, v))

\* C7: in a run every work unit of an identifier of the failed mapping comes
\* before any work unit of another identifier, whatever the retries end in;
\* with failed = {X: ref}, Y never processed and [X, Y] discovered, the work
\* units of the run are exactly X (retry), Y (new).
C7_RetriesFirst ==
    /\ \A i, j \in 1..Len(log) :
          (i < j /\ DictHas(failed0, log[j].video_id)) => DictHas(failed0, log[i].video_id)
    /\ (/\ pc = "new" /\ pos = Len(unprocessed)
        /\ DictKeys(failed0) = {"X"} /\ "Y" \notin cache0
        /\ AllIds = <<"X", "Y">>)
          => log = <<[video_id |-> "X", is_retry |-> TRUE],
                     [video_id |-> "Y", is_retry |-> FALSE]>>

\* C10: when the query of a page raises, the load returns an empty set and
\* an empty mapping, the run goes on (no retry work, discovery happens) and
\* every discovered identifier is scheduled as unprocessed.
C10_QueryErrorTolerated ==
    fail_page0 # 0 =>
        /\ cache0 = {}
        /\ failed0 = <<>>
        /\ pc \in {"retry", "new", "done"}
        /\ pc = "retry" => (cache = {} /\ errors = <<>> /\ retry_items = <<>>)
        /\ pc \in {"new", "done"} =>
              /\ ScIds(unprocessed) = ScIds(all_videos)
              /\ Len(unprocessed) = Cardinality(ScIds(all_videos))

C10_Witness ==
    /\ fail_page0 = 2
    /\ pc = "new"
    /\ \E i \in 1..Len(store) : IdExtractable(store[i]) /\ ~StatusMarked(store[i])
                                  /\ IdOfPage(store[i]) \in ScIds(unprocessed)
    /\ \E i \in 1..Len(store) : IdExtractable(store[i]) /\ StatusMarked(store[i])
                                  /\ IdOfPage(store[i]) \in ScIds(unprocessed)


(***************************************************************************)
(* Claims about the written pages (Spec)                                   *)
(***************************************************************************)
\* the children a committed page is to have: heading, divider, fragments
Layout(transcript) == <<HeadingBlock, DividerBlock>> \o Chunks(transcript)
\* what the load of the next run returns when its query does not raise
NextLoad == load_processed_videos_from_notion(store, {}, 0)
\* the last process_video call of the run transcribed (it was not answered
\* from the cache)
Processed == log # <<>> /\ last.outcome # "already"

\* C11: when the identifier of a work unit had a failed record, its
\* transcription succeeded and the update was made with no store call
\* failing, the record's summary is the new summary, its children are the
\* new blocks only, and the next load returns the identifier as processed
\* and not as failed.
C11_FailedRecordRepaired ==
    (/\ Processed
     /\ last.was_failed
     /\ last.path = "succeeded"
     /\ last.outcome = "persisted"
     /\ last.kept = 0) =>
        /\ store[last.page].summary = <<TextElem(Truncate(last.result.summary))>>
        /\ store[last.page].children = Layout(last.result.transcript)
        /\ last.video_id \in NextLoad.ids
        /\ ~DictHas(NextLoad.errors, last.video_id)

\* C14: after a work unit is committed, by the create path or by the update
\* path (failed block deletes are ignored there), the children of its page
\* are the heading, the divider and the fragments of the new transcript in
\* order, and nothing else.
C14_CommittedLayout ==
    (Processed /\ last.outcome = "persisted") =>
        store[last.page].children = Layout(last.result.transcript)

\* the identifiers run() is to process, in order: the failed ones of the
\* load, then the unprocessed ones of the discovery
Scheduled ==
    [i \in 1..Len(failed0) |-> failed0[i].k]
        \o [i \in 1..Len(unprocessed) |-> unprocessed[i].video_id]

\* C15: a run that starts ends, and no work unit stops it: whatever the
\* connector, the discovery and the store do, every processed work unit ends
\* persisted, skipped for rate limit or failed, no exception leaves run(), and
\* at the end every scheduled work unit has been processed.
C15_RunCompletes ==
    /\ [](pc # "aborted")
    /\ []((log # <<>>) => last.outcome \in {"persisted", "skipped", "failed"})
    /\ [](pc = "done" => (retry_items = <<>> /\ LogIds = Scheduled))
    /\ (pc = "retry" /\ runs < MaxRuns) ~> (pc = "done")

C15_Witness ==
    /\ pc = "done"
    /\ Len(log) >= 3
    /\ "X" \in interrupted
    /\ last.video_id = "Y"
    /\ last.outcome = "persisted"

\* a step of run() (the load of __init__ is the only other step)
InRun == pc \in {"retry", "new"}

\* C17: in a run an identifier enters processed_videos_cache only in a step
\* that committed its work unit, after every store call of the unit returned
\* (no write raised, no delete failed); a unit that is skipped for rate limit
\* or whose store write raises leaves the cache as it was.
C17_CacheOnlyAfterCommit ==
    [][InRun =>
          /\ (cache' # cache) =>
                /\ log' # log
                /\ last'.outcome = "persisted"
                /\ last'.ret = TRUE
                /\ last'.kept = 0
                /\ cache' = cache \cup {last'.video_id}
          /\ (log' # log /\ last'.outcome \in {"skipped", "failed"}) =>
                cache' = cache]_vars

C17_Witness ==
    /\ Processed
    /\ last.outcome = "persisted"
    /\ last.calls = <<"create">>
    /\ last.video_id \in cache
    /\ last.video_id \notin cache0
    /\ interrupted # {}

\* C18: only the rate-limit artifact is withheld from the database: every
\* succeeded artifact and every generic-error artifact of a processed work
\* unit is written (created or updated).
C18_OnlyRateLimitWithheld ==
    (Processed /\ last.path \in {"succeeded", "error"}) =>
        /\ last.outcome # "skipped"
        /\ last.calls # <<>>
        /\ last.calls[1] \in {"create", "update"}

\* C19: a work unit that reaches the writer is written by update_notion_page,
\* on the page error_videos records for it, when its identifier is in
\* error_videos, and by add_to_notion (a new page) otherwise, in the retry
\* loop and in the loop over the discovered videos alike.
C19_UpdateIffFailed ==
    [][(InRun /\ log' # log /\ last'.calls # <<>>) =>
          IF DictHas(errors, last'.video_id)
          THEN /\ last'.calls[1] = "update"
               /\ Len(store') = Len(store)
               /\ \A i \in 1..Len(store) :
                     store[i].id # DictGet(errors, last'.video_id) => store'[i] = store[i]
          ELSE /\ last'.calls[1] = "create"
               /\ Len(store') \in {Len(store), Len(store) + 1}
               /\ \A i \in 1..Len(store) : store'[i] = store[i]
               /\ last'.outcome = "persisted" =>
                     /\ Len(store') = Len(store) + 1
                     /\ IdOfPage(store'[Len(store')]) = last'.video_id]_vars

C19_Witness ==
    /\ Processed
    /\ last.is_retry = FALSE
    /\ last.was_failed
    /\ DictHas(failed0, last.video_id)
    /\ last.calls # <<>>
    /\ last.calls[1] = "update"
    /\ last.outcome = "persisted"

\* what the load makes of one page
Classified(page) == ReadPage([ids |-> {}, errors |-> <<>>], page)

\* C20: the page written from a generic-error artifact is classified as
\* failed by the next load, and the page written from a succeeded artifact
\* as processed and not failed.
C20_EncodingRoundTrip ==
    (Processed /\ last.outcome = "persisted") =>
        LET read == Classified(store[last.page])
        IN  /\ last.video_id \in read.ids
            /\ last.path = "error" => DictHas(read.errors, last.video_id)
            /\ last.path = "succeeded" => ~DictHas(read.errors, last.video_id)

\* C21: in one run no identifier is transcribed more than once: an identifier
\* handled in the retry loop, whatever that retry ended in, is not transcribed
\* again when the discovery returns it.
C21_TransformedOncePerRun ==
    \A i, j \in 1..Len(log) : i # j => log[i].video_id # log[j].video_id

\* the page error_videos recorded for an identifier at the load of this run
FailedPage(v) == store[PageIndex(store, DictGet(failed0, v))]

\* C22: in a run whose load did not raise, after each work unit an identifier
\* the run removed from error_videos has a page whose Summary holds no
\* failure marker, and at the end of the run the number of error_videos
\* (the count of the last summary line) is the number of identifiers the
\* next load classifies as failed.
C22_FailedAgreesWithStore ==
    (fail_page0 = 0 /\ pc \in {"retry", "new", "done"}) =>
        /\ \A v \in DictKeys(failed0) \ DictKeys(errors) : ~StatusMarked(FailedPage(v))
        /\ pc = "done" =>
              Cardinality(DictKeys(errors)) = Cardinality(DictKeys(NextLoad.errors))

(***************************************************************************)
(* Claims about one fragmenting (SpecFragment)                             *)
(***************************************************************************)
\* the concatenation of the sequences of a sequence, in order
RECURSIVE Flatten(_)
Flatten(seqs) == IF seqs = <<>> THEN <<>> ELSE Head(seqs) \o Flatten(Tail(seqs))

FrFragments == [j \in 1..Len(fr_chunks) |-> fr_chunks[j].text]

\* C12: the fragments of every text (the empty text and the texts whose
\* length is a multiple of FRAGMENT_MAX included) have at most FRAGMENT_MAX
\* characters each, and their concatenation in order is the text.
C12_FragmentsRoundTrip ==
    fr_pc = "done" =>
        /\ \A j \in 1..Len(fr_chunks) :
              /\ fr_chunks[j].type = "paragraph"
              /\ Len(fr_chunks[j].text) <= FRAGMENT_MAX
        /\ Flatten(FrFragments) = fr_text
        /\ fr_text = <<>> => fr_chunks = <<>>

C12_Witness ==
    /\ fr_pc = "done"
    /\ Len(fr_text) = 2 * FRAGMENT_MAX
    /\ Len(fr_chunks) = 2
    /\ fr_chunks[1].text # fr_chunks[2].text

(***************************************************************************)
(* Claims about one batching (SpecBatch)                                   *)
(***************************************************************************)
\* the fragments of the first write request: its blocks after the heading
\* and the divider
BtFirstFragments == SubSeq(bt_first, 3, Len(bt_first))

\* C13: the first write request holds at most FIRST_BATCH (98) fragments and
\* every later one at most APPEND_BATCH (100); the batches in call order
\* concatenate to the fragment sequence; no write request carries more than
\* 100 child blocks, the heading and the divider of the first one included.
C13_BatchCaps ==
    bt_pc = "done" =>
        /\ Len(bt_first) >= 2
        /\ bt_first[1] = HeadingBlock
        /\ bt_first[2] = DividerBlock
        /\ Len(BtFirstFragments) <= FIRST_BATCH
        /\ \A k \in 1..Len(bt_batches) :
              Len(bt_batches[k]) >= 1 /\ Len(bt_batches[k]) <= APPEND_BATCH
        /\ BtFirstFragments \o Flatten(bt_batches) = bt_chunks
        /\ Len(bt_first) <= 100
        /\ \A k \in 1..Len(bt_batches) : Len(bt_batches[k]) <= 100

C13_Witness ==
    /\ bt_pc = "done"
    /\ Len(bt_chunks) = FIRST_BATCH + APPEND_BATCH + 1
    /\ Len(bt_first) = 100
    /\ Len(bt_batches) = 2
    /\ Len(bt_batches[1]) = APPEND_BATCH
    /\ bt_batches[2] = <<bt_chunks[Len(bt_chunks)]>>

(***************************************************************************)
(* Claims about one backoff computation (SpecBackoff)                      *)
(***************************************************************************)
\* base * 2^n seconds
BkBase == Seconds(base_backoff * (2 ^ bk_n))
\* base * 2^n + 1 seconds
BkBasePlusOne == Seconds(base_backoff * (2 ^ bk_n) + 1)
\* the sleep of attempt n is shorter than every sleep of attempt n + 1
BkIncreasing ==
    \A jitter \in Jitters : TimeLess(bk_out, exponential_backoff_delay(bk_n + 1, jitter))

\* C16 as claimed: base * 2^n <= delay(n) < base * 2^n + 1 for every attempt
\* count n, and the successive backoff sleeps are strictly increasing.
C16_DelayBelowNextSecond ==
    bk_pc = "done" =>
        /\ TimeLeq(BkBase, bk_out)
        /\ TimeLess(bk_out, BkBasePlusOne)
        /\ BkIncreasing

\* C16 amended: base * 2^n <= delay(n) <= base * 2^n + 1 (the sum of the
\* delay and a jitter just under one second is rounded up to base * 2^n + 1),
\* and the successive backoff sleeps are strictly increasing.
C16_DelayUpToNextSecond ==
    bk_pc = "done" =>
        /\ TimeLeq(BkBase, bk_out)
        /\ TimeLeq(bk_out, BkBasePlusOne)
        /\ bk_jitter.below = 0 => TimeLess(bk_out, BkBasePlusOne)
        /\ BkIncreasing

C16_Witness ==
    /\ bk_pc = "done"
    /\ bk_n = 0
    /\ bk_jitter = Time(JitterDen, 1)
    /\ bk_out = BkBasePlusOne
====
